---- MODULE Spec2Model ----
(***************************************************************************)
(* A model of NanoGPTLangugageModel.py: get_batch, estimate_loss,          *)
(* MultiHeadAttention.forward, Block.forward, NanoGPTLanguageModel.forward *)
(* and NanoGPTLanguageModel.generate.                                      *)
(*                                                                         *)
(* Tensors are modelled by their time axis.  A hidden vector is a symbolic *)
(* value [x |-> v, kv |-> s]: v is what the position itself contributes    *)
(* (the residual stream and the query), s is the sequence of key/value     *)
(* entries that receive a non-zero attention weight from it.  Position-    *)
(* wise maps (linear layers, layer norm, feed-forward) keep the symbolic   *)
(* value.  Two hidden vectors are equal in the program (dropout aside)     *)
(* when their symbolic values are equal.                                   *)
(*                                                                         *)
(* Python's None is the empty sequence <<>> for an Optional tensor pair,   *)
(* and a record with none = TRUE for an Optional list.                     *)
(***************************************************************************)
EXTENDS Integers, Sequences, FiniteSets, TLC

VARIABLES
    data,            \* the encoded corpus (line 34)
    training,        \* nn.Module.training of the model: TRUE after construction
    pc,              \* "idle", "estimate_loss", "generate", "error"
    split_k,         \* estimate_loss: <<index of the split, k>>
    n_fwd,           \* forward passes completed by the running call
    n_upd,           \* optimizer.step() calls done
    idx,             \* generate: the sequence so far
    curr_idx,        \* generate: the input of the next forward call
    blocks_kvcache,  \* generate: the per-block caches
    it,              \* generate: iterations done
    max_new_tokens,  \* generate: the argument
    fwd,             \* the last forward call: who issued it and what it gave
    ret,             \* how the last call ended: returned value or raised
    call,            \* the arguments of the call
    res              \* a single call of one function: its result

vars == <<data, training, pc, split_k, n_fwd, n_upd, idx, curr_idx,
          blocks_kvcache, it, max_new_tokens, fwd, ret, call, res>>

-----------------------------------------------------------------------------
\* hyperparameters (lines 7-16), scaled down
batch_size == 2
block_size == 3
eval_iters == 2
n_layer == 2

\* bounds of the model
NumSymbols == 2
MaxCorpus == 6
MaxData == 41
MaxPrompt == 4
MaxNewTokens == 5
MaxHistory == 5
MaxT == 4

-----------------------------------------------------------------------------
\* Python helpers

Min(a, b) == IF a <= b THEN a ELSE b
Max(a, b) == IF a >= b THEN a ELSE b

\* s[a:b] for 0 <= a, with Python's clipping at len(s)
Slice(s, a, b) ==
    LET lo == Min(a, Len(s))
        hi == Min(Max(b, lo), Len(s))
    IN  [i \in 1..(hi - lo) |-> s[lo + i]]

\* the 0-based indices s[a:b] reads
SliceIdx(n, a, b) ==
    LET lo == Min(a, n)
        hi == Min(Max(b, lo), n)
    IN  [i \in 1..(hi - lo) |-> lo + i - 1]

\* s[-n:] for n > 0
LastN(s, n) == IF Len(s) <= n THEN s ELSE SubSeq(s, Len(s) - n + 1, Len(s))

Last(s) == s[Len(s)]

Range(s) == {s[i] : i \in 1..Len(s)}

-----------------------------------------------------------------------------
\* corpus, vocabulary and partitions (lines 22-36)

\* a corpus of n characters over NumSymbols symbols, encoded
Corpus(n) == [i \in 1..n |-> (i - 1) % NumSymbols]

\* vocab_size = len(sorted(set(text)))
vocab_size == Cardinality(Range(data))

\* n = int(0.9 * len(data)); the float product truncates to 9 * len \div 10
\* for every length below 2000
SplitPoint(d) == (9 * Len(d)) \div 10

train_data == Slice(data, 0, SplitPoint(data))
val_data == Slice(data, SplitPoint(data), Len(data))

Partition(split) == IF split = "train" THEN train_data ELSE val_data

-----------------------------------------------------------------------------
\* get_batch (lines 38-44)

\* the exclusive upper end of torch.randint
RandintHighOffByOne(part) == Len(part) - block_size + 1
RandintHigh(part) == Len(part) - block_size

\* torch.randint raises when high <= 0
GetBatchRaises(split) == RandintHigh(Partition(split)) <= 0

Offsets(split) == 0..(RandintHigh(Partition(split)) - 1)

\* the batch for the drawn offsets ix; xi, yi are the indices of the partition
\* the slices read
GetBatch(split, ix) ==
    LET part == Partition(split)
    IN  [x  |-> [b \in 1..batch_size |-> Slice(part, ix[b], ix[b] + block_size)],
         y  |-> [b \in 1..batch_size |->
                    Slice(part, ix[b] + 1, ix[b] + block_size + 1)],
         xi |-> [b \in 1..batch_size |->
                    SliceIdx(Len(part), ix[b], ix[b] + block_size)],
         yi |-> [b \in 1..batch_size |->
                    SliceIdx(Len(part), ix[b] + 1, ix[b] + block_size + 1)]]

-----------------------------------------------------------------------------
\* MultiHeadAttention (lines 98-151)

\* self.tril[0, 0, i, j], 0-based (line 111)
TrilAllOnes(i, j) == 1
Tril(i, j) == IF j <= i THEN 1 ELSE 0

\* the cached steps prev_k[:, :, -block_size-1:, :] keeps (line 133)
CacheWindow == block_size + 1

\* k (and v) after lines 130-135
Keys(x, use_cache, kvcache) ==
    IF use_cache /\ kvcache # <<>>
    THEN LastN(kvcache[1].k, CacheWindow) \o x
    ELSE x

Values(x, use_cache, kvcache) ==
    IF use_cache /\ kvcache # <<>>
    THEN LastN(kvcache[1].v, CacheWindow) \o x
    ELSE x

\* the kvcache the call returns (lines 130-136, 151)
NewCacheNoCat(x, use_cache, kvcache) ==
    IF use_cache THEN <<[k |-> x, v |-> x]>> ELSE kvcache
NewCache(x, use_cache, kvcache) ==
    IF use_cache
    THEN <<[k |-> Keys(x, use_cache, kvcache), v |-> Values(x, use_cache, kvcache)]>>
    ELSE kvcache

\* the extent of self.tril[:, :, :T, :T] on each of its last two axes
MaskExtent(T) == Min(T, block_size)

\* masked_fill broadcasts the mask to the [T, K] scores or raises (line 140)
MaskFitsAlways(T, K) == TRUE
MaskFits(T, K) ==
    /\ MaskExtent(T) = T \/ MaskExtent(T) = 1
    /\ MaskExtent(T) = K \/ MaskExtent(T) = 1

\* whether score [q, j] (0-based) is filled with -inf (line 140)
Masked(q, j, T) ==
    LET qq == IF MaskExtent(T) = 1 THEN 0 ELSE q
        jj == IF MaskExtent(T) = 1 THEN 0 ELSE j
    IN  Tril(qq, jj) = 0

\* the softmax weights (line 143): 0 where the score is -inf, positive
\* elsewhere (1 stands for a positive weight)
AttWeights(T, K) ==
    [q \in 1..T |-> [j \in 1..K |-> IF Masked(q - 1, j - 1, T) THEN 0 ELSE 1]]

\* the entries of s whose weight is positive
RECURSIVE Visible(_, _)
Visible(s, w) ==
    IF s = <<>> THEN <<>>
    ELSE LET rest == Visible(SubSeq(s, 1, Len(s) - 1), SubSeq(w, 1, Len(w) - 1))
         IN  IF w[Len(w)] > 0 THEN Append(rest, s[Len(s)]) ELSE rest

\* MultiHeadAttention.forward: err, out, kvcache and the weights
AttentionForward(x, use_cache, kvcache) ==
    LET T == Len(x)
        k == Keys(x, use_cache, kvcache)
        v == Values(x, use_cache, kvcache)
        K == Len(k)
    IN  IF ~MaskFits(T, K)
        THEN [err |-> "RuntimeError", out |-> <<>>, kvcache |-> <<>>, wei |-> <<>>,
              T |-> T, K |-> K]
        ELSE LET w == AttWeights(T, K)
             IN  [err |-> "",
                  out |-> [q \in 1..T |-> [x |-> x[q], kv |-> Visible(v, w[q])]],
                  kvcache |-> NewCache(x, use_cache, kvcache),
                  wei |-> w, T |-> T, K |-> K]

-----------------------------------------------------------------------------
\* Block.forward (lines 187-201): the residual and position-wise parts keep
\* the symbolic value the attention gives

BlockForward(x, use_cache, kvcache) ==
    LET a == AttentionForward(x, use_cache, kvcache)
    IN  [err |-> a.err, x |-> a.out, kvcache |-> a.kvcache]

-----------------------------------------------------------------------------
\* NanoGPTLanguageModel.forward (lines 212-249)

NoneList == [none |-> TRUE, list |-> <<>>]
ListOf(l) == [none |-> FALSE, list |-> l]
NoTargets == <<>>

\* line 227
HistoryLengthZero(bkv) == 0
HistoryLength(bkv) ==
    IF bkv.none \/ bkv.list = <<>> \/ bkv.list[1] = <<>>
    THEN 0
    ELSE Len(bkv.list[1][1].k)

\* torch.arange(T) + history_length (line 228)
Positions(T, bkv) == [i \in 1..T |-> (i - 1) + HistoryLength(bkv)]

\* nn.Embedding(block_size, n_embd) raises on an index outside 0..block_size-1
\* (lines 207, 228)
PosInRangeWide(p) == p >= 0 /\ p <= block_size
PosInRange(p) == p >= 0 /\ p < block_size

\* tok_emb + pos_emb (line 230)
Embed(idx_, bkv) ==
    [i \in 1..Len(idx_) |-> [x |-> <<idx_[i], Positions(Len(idx_), bkv)[i]>>, kv |-> <<>>]]

\* the loop of lines 232-234 from block l on; zip stops at the shorter of the
\* block list and the cache list
RECURSIVE RunBlocks(_, _, _, _, _)
RunBlocks(l, x, use_cache, list, acc) ==
    IF l > Min(n_layer, Len(list))
    THEN [err |-> "", x |-> x, kvcaches |-> acc]
    ELSE LET b == BlockForward(x, use_cache, list[l])
         IN  IF b.err # ""
             THEN [err |-> b.err, x |-> <<>>, kvcaches |-> <<>>]
             ELSE RunBlocks(l + 1, b.x, use_cache, list, Append(acc, b.kvcache))

Raise(e) == [err |-> e, logits |-> <<>>, loss |-> "None", kvcaches |-> <<>>, arity |-> 0]

\* forward on one row of the batch: IndexError from the position embedding
\* (line 228), TypeError from zip over None (line 232), RuntimeError from the
\* mask (line 140); otherwise (logits, loss) or (logits, loss, new_kvcaches)
Forward(idx_, targets, use_cache, bkv) ==
    IF \E i \in 1..Len(idx_) : ~PosInRange(Positions(Len(idx_), bkv)[i])
    THEN Raise("IndexError")
    ELSE IF bkv.none
    THEN Raise("TypeError")
    ELSE LET r == RunBlocks(1, Embed(idx_, bkv), use_cache, bkv.list, <<>>)
         IN  IF r.err # ""
             THEN Raise(r.err)
             ELSE [err |-> "",
                   logits |-> r.x,
                   loss |-> IF targets = NoTargets THEN "None" ELSE "cross_entropy",
                   kvcaches |-> IF use_cache THEN r.kvcaches ELSE <<>>,
                   arity |-> IF use_cache THEN 3 ELSE 2]

\* model(X, Y) on a batch: every row has the same shape, so the call raises
\* what its first row raises
ModelCall(X, Y) == Forward(X[1], <<Y[1]>>, FALSE, NoneList)

-----------------------------------------------------------------------------
\* The program: a constructed model and the calls the module makes on it
\* (estimate_loss, a training step, generate).  An exception propagates to
\* the caller and ends the process.

NoFwd == [caller |-> "none", err |-> "", loss |-> "None", dropout |-> FALSE,
          arity |-> 0, pos |-> <<>>, last |-> <<>>]
NoRet == [from |-> "none", raised |-> FALSE, value |-> <<>>]
Raised(caller) == [from |-> caller, raised |-> TRUE, value |-> <<>>]
Returned(caller, v) == [from |-> caller, raised |-> FALSE, value |-> v]
NoCall == [op |-> "none"]
NoRes == [done |-> FALSE, err |-> "", out |-> <<>>]

\* the corpora of the program runs: the shortest leaves get_batch no offset
Corpora == {Corpus(n) : n \in (block_size + 1)..MaxCorpus}

Tokens == 0..(vocab_size - 1)

Prompts == UNION {[1..n -> Tokens] : n \in 1..MaxPrompt}

Splits == <<"train", "val">>

\* what a forward call leaves behind: nn.Dropout drops exactly when the
\* module is in training mode (lines 144, 150, 161)
FwdRecord(caller, r, T, bkv) ==
    [caller |-> caller, err |-> r.err, loss |-> r.loss, dropout |-> training,
     arity |-> r.arity,
     pos |-> Positions(T, bkv),
     last |-> IF r.err = "" /\ r.logits # <<>> THEN <<Last(r.logits)>> ELSE <<>>]

Init ==
    /\ data \in Corpora
    /\ training = TRUE
    /\ pc = "idle"
    /\ split_k = <<1, 0>>
    /\ n_fwd = 0
    /\ n_upd = 0
    /\ idx = <<>>
    /\ curr_idx = <<>>
    /\ blocks_kvcache = NoneList
    /\ it = 0
    /\ max_new_tokens = 0
    /\ fwd = NoFwd
    /\ ret = NoRet
    /\ call = NoCall
    /\ res = NoRes

\* estimate_loss, lines 48-51: model.eval() and the loop heads
EstimateLossCall ==
    /\ pc = "idle"
    /\ pc' = "estimate_loss"
    /\ training' = FALSE
    /\ split_k' = <<1, 0>>
    /\ n_fwd' = 0
    /\ ret' = NoRet
    /\ call' = [op |-> "estimate_loss"]
    /\ UNCHANGED <<data, n_upd, idx, curr_idx, blocks_kvcache, it,
                   max_new_tokens, fwd, res>>

\* estimate_loss, lines 53-58: one iteration of the inner loop and, after the
\* last one, model.train() and the return
EstimateLossIter ==
    /\ pc = "estimate_loss"
    /\ LET split == Splits[split_k[1]] IN
       IF GetBatchRaises(split)
       THEN /\ pc' = "error"
            /\ ret' = Raised("estimate_loss")
            /\ UNCHANGED <<training, split_k, n_fwd, fwd>>
       ELSE \E ix \in [1..batch_size -> Offsets(split)] :
            LET b == GetBatch(split, ix)
                r == ModelCall(b.x, b.y)
                k == split_k[2] + 1
                lastSplit == split_k[1] = Len(Splits)
            IN  /\ fwd' = FwdRecord("estimate_loss", r, Len(b.x[1]), NoneList)
                /\ IF r.err # ""
                   THEN /\ pc' = "error"
                        /\ ret' = Raised("estimate_loss")
                        /\ UNCHANGED <<training, split_k, n_fwd>>
                   ELSE /\ n_fwd' = n_fwd + 1
                        /\ split_k' = IF k < eval_iters THEN <<split_k[1], k>>
                                      ELSE <<split_k[1] + 1, 0>>
                        /\ IF k = eval_iters /\ lastSplit
                           THEN /\ training' = TRUE
                                /\ pc' = "idle"
                                /\ ret' = Returned("estimate_loss", Splits)
                           ELSE UNCHANGED <<training, pc, ret>>
    /\ UNCHANGED <<data, n_upd, idx, curr_idx, blocks_kvcache, it,
                   max_new_tokens, call, res>>

\* one pass of the training loop, lines 288-294
TrainStep ==
    /\ pc = "idle"
    /\ IF GetBatchRaises("train")
       THEN /\ pc' = "error"
            /\ ret' = Raised("train")
            /\ UNCHANGED <<fwd, n_upd>>
       ELSE \E ix \in [1..batch_size -> Offsets("train")] :
            LET b == GetBatch("train", ix)
                r == ModelCall(b.x, b.y)
            IN  /\ fwd' = FwdRecord("train", r, Len(b.x[1]), NoneList)
                /\ IF r.err # ""
                   THEN /\ pc' = "error"
                        /\ ret' = Raised("train")
                        /\ UNCHANGED n_upd
                   ELSE /\ pc' = "idle"
                        /\ ret' = Returned("train", <<>>)
                        /\ n_upd' = n_upd + 1
    /\ call' = [op |-> "train"]
    /\ UNCHANGED <<data, training, split_k, n_fwd, idx, curr_idx,
                   blocks_kvcache, it, max_new_tokens, res>>

\* generate, lines 259-260
GenerateCall ==
    /\ pc = "idle"
    /\ \E prompt \in Prompts, N \in 0..MaxNewTokens :
        /\ idx' = prompt
        /\ curr_idx' = prompt
        /\ max_new_tokens' = N
        /\ call' = [op |-> "generate", idx |-> prompt, max_new_tokens |-> N]
    /\ blocks_kvcache' = ListOf([l \in 1..n_layer |-> <<>>])
    /\ it' = 0
    /\ n_fwd' = 0
    /\ pc' = "generate"
    /\ fwd' = NoFwd
    /\ ret' = NoRet
    /\ UNCHANGED <<data, training, split_k, n_upd, res>>

\* generate, lines 261-271: one iteration; torch.multinomial draws any token,
\* every softmax probability being positive
GenerateStep ==
    /\ pc = "generate"
    /\ it < max_new_tokens
    /\ LET r == Forward(curr_idx, NoTargets, TRUE, blocks_kvcache) IN
        /\ fwd' = FwdRecord("generate", r, Len(curr_idx), blocks_kvcache)
        /\ IF r.err # ""
           THEN /\ pc' = "error"
                /\ ret' = Raised("generate")
                /\ UNCHANGED <<idx, curr_idx, blocks_kvcache, it, n_fwd>>
           ELSE \E idx_next \in Tokens :
                /\ curr_idx' = <<idx_next>>
                /\ idx' = Append(idx, idx_next)
                /\ blocks_kvcache' = ListOf(r.kvcaches)
                /\ it' = it + 1
                /\ n_fwd' = n_fwd + 1
                /\ pc' = "generate"
                /\ UNCHANGED ret
    /\ UNCHANGED <<data, training, split_k, n_upd, max_new_tokens, call, res>>

\* generate, line 272; the caches are locals and go with the call
GenerateReturn ==
    /\ pc = "generate"
    /\ it = max_new_tokens
    /\ pc' = "idle"
    /\ ret' = Returned("generate", idx)
    /\ UNCHANGED <<data, training, split_k, n_fwd, n_upd, idx, curr_idx,
                   blocks_kvcache, it, max_new_tokens, fwd, call, res>>

Next ==
    \/ EstimateLossCall
    \/ EstimateLossIter
    \/ TrainStep
    \/ GenerateCall
    \/ GenerateStep
    \/ GenerateReturn

Spec == Init /\ [][Next]_vars

-----------------------------------------------------------------------------
\* Single calls of MultiHeadAttention.forward, NanoGPTLanguageModel.forward
\* and get_batch, on arguments drawn from bounded sets.

\* the symbolic vector of global position p
Vec(p) == [x |-> <<0, p>>, kv |-> <<>>]

\* a cache of h earlier steps (h < 0: None), and t new inputs after them
CacheOf(h) ==
    IF h < 0 THEN <<>>
    ELSE <<[k |-> [j \in 1..h |-> Vec(j - 1)], v |-> [j \in 1..h |-> Vec(j - 1)]]>>
NewInputs(h, t) == [i \in 1..t |-> Vec(Max(h, 0) + i - 1)]

IdleProgram ==
    /\ training = TRUE
    /\ pc = "idle"
    /\ split_k = <<1, 0>>
    /\ n_fwd = 0
    /\ n_upd = 0
    /\ idx = <<>>
    /\ curr_idx = <<>>
    /\ blocks_kvcache = NoneList
    /\ it = 0
    /\ max_new_tokens = 0
    /\ fwd = NoFwd
    /\ ret = NoRet
    /\ res = NoRes

UnchangedProgram ==
    UNCHANGED <<data, training, pc, split_k, n_fwd, n_upd, idx, curr_idx,
                blocks_kvcache, it, max_new_tokens, fwd, ret, call>>

InitAttn ==
    /\ IdleProgram
    /\ data = Corpus(block_size + 1)
    /\ call \in {[op |-> "attention", use_cache |-> u, H |-> h, T |-> t] :
                    u \in BOOLEAN, h \in (-1)..MaxHistory, t \in 1..MaxT}

AttnCall ==
    /\ call.op = "attention"
    /\ ~res.done
    /\ LET r == AttentionForward(NewInputs(call.H, call.T), call.use_cache,
                                 CacheOf(call.H))
       IN  res' = [done |-> TRUE, err |-> r.err, out |-> r]
    /\ UnchangedProgram

NextAttn == AttnCall

SpecAttn == InitAttn /\ [][NextAttn]_vars

\* the blocks_kvcache arguments: None, a list of None, a list of caches of
\* the same length
CacheLists ==
    {NoneList}
    \cup {ListOf([l \in 1..n_layer |-> CacheOf(h)]) : h \in (-1)..MaxHistory}

InitForward ==
    /\ IdleProgram
    /\ data = Corpus(block_size + 1)
    /\ call \in {[op |-> "forward", T |-> t, targets |-> g, use_cache |-> u,
                  blocks_kvcache |-> c] :
                    t \in 1..MaxT, g \in BOOLEAN, u \in BOOLEAN, c \in CacheLists}

ForwardCall ==
    /\ call.op = "forward"
    /\ ~res.done
    /\ LET idx_ == Corpus(call.T)
           r == Forward(idx_, IF call.targets THEN <<idx_>> ELSE NoTargets,
                        call.use_cache, call.blocks_kvcache)
       IN  res' = [done |-> TRUE, err |-> r.err, out |-> r]
    /\ UnchangedProgram

NextForward == ForwardCall

SpecForward == InitForward /\ [][NextForward]_vars

\* the corpora of the get_batch calls: the shortest leave the validation
\* partition no offset
BatchCorpora == {Corpus(n) : n \in (10 * block_size - 2)..MaxData}

InitBatch ==
    /\ IdleProgram
    /\ data \in BatchCorpora
    /\ call \in {[op |-> "get_batch", split |-> sp] : sp \in Range(Splits)}

GetBatchCall ==
    /\ call.op = "get_batch"
    /\ ~res.done
    /\ IF GetBatchRaises(call.split)
       THEN res' = [done |-> TRUE, err |-> "RuntimeError", out |-> <<>>]
       ELSE \E ix \in [1..batch_size -> Offsets(call.split)] :
                res' = [done |-> TRUE, err |-> "",
                        out |-> <<ix, GetBatch(call.split, ix)>>]
    /\ UnchangedProgram

NextBatch == GetBatchCall

SpecBatch == InitBatch /\ [][NextBatch]_vars

-----------------------------------------------------------------------------
\* Properties

Front(q) == SubSeq(q, 1, Len(q) - 1)

\* the caches generate holds, as a list
GenCaches == blocks_kvcache.list

\* C1: a training-mode forward call (use_cache false, no cache list given, as
\* the training loop and estimate_loss issue it) returns (logits, loss) with a
\* cross-entropy loss for the targets given, and does not end in an error.
C1_TrainingForwardReturns ==
    fwd.caller \in {"train", "estimate_loss"} =>
        /\ fwd.err = ""
        /\ fwd.arity = 2
        /\ fwd.loss = "cross_entropy"

C4_Causality ==
    (res.done /\ call.op = "attention" /\ res.err = "") =>
        LET r == res.out
            hist == r.K - r.T
        IN  \A q \in 1..r.T : \A j \in 1..r.K :
                /\ j > hist + q => r.wei[q][j] = 0
                /\ r.wei[q][j] > 0 => j <= hist + q

\* a call with several query positions in which a later key is masked
C4_Witness ==
    /\ res.done
    /\ call.op = "attention"
    /\ res.err = ""
    /\ call.T >= 2
    /\ res.out.wei[1][2] = 0
    /\ res.out.wei[2][1] > 0

\* C5: generate on a prompt of length T0 (one that fits the context) with
\* max_new_tokens = N performs N forward steps and returns T0 + N tokens,
\* the prompt first.
C5_GenerateReturns ==
    (ret.from = "generate" /\ call.op = "generate"
        /\ Len(call.idx) <= block_size) =>
        /\ ~ret.raised
        /\ n_fwd = call.max_new_tokens
        /\ Len(ret.value) = Len(call.idx) + call.max_new_tokens
        /\ SubSeq(ret.value, 1, Len(call.idx)) = call.idx
        /\ \A i \in 1..Len(ret.value) : ret.value[i] \in Tokens

\* C6: every batch get_batch returns has batch_size pairs, input and target
\* both block_size long, the target being the input shifted by one element
\* of the partition.
C6_BatchWindows ==
    (res.done /\ call.op = "get_batch" /\ res.err = "") =>
        LET b == res.out[2]
            part == Partition(call.split)
        IN  /\ Len(b.x) = batch_size
            /\ Len(b.y) = batch_size
            /\ \A n \in 1..batch_size :
                /\ Len(b.x[n]) = block_size
                /\ Len(b.y[n]) = block_size
                /\ \A j \in 1..Len(b.x[n]) :
                    /\ b.xi[n][j] \in 0..(Len(part) - 1)
                    /\ j <= Len(b.y[n]) =>
                        /\ b.yi[n][j] = b.xi[n][j] + 1
                        /\ b.yi[n][j] \in 0..(Len(part) - 1)
                        /\ b.y[n][j] = part[b.xi[n][j] + 2]

\* a validation batch with a window at the largest offset
C6_Witness ==
    /\ res.done
    /\ call.op = "get_batch"
    /\ res.err = ""
    /\ call.split = "val"
    /\ Len(Partition("val")) > block_size + 1
    /\ \E n \in 1..batch_size :
        res.out[1][n] = Len(Partition("val")) - block_size - 1

\* C7: when control leaves estimate_loss, having sampled a batch and issued
\* a forward pass, it has made eval_iters forward passes per split, each
\* without dropout, and the model is in training mode.
C7_EstimateLossRestores ==
    /\ fwd.caller = "estimate_loss" => ~fwd.dropout
    /\ (ret.from = "estimate_loss" /\ fwd.caller = "estimate_loss") =>
        /\ training
        /\ n_fwd = Len(Splits) * eval_iters

\* C8: a generation call starts with every block's cache absent; every step
\* gives its input tokens the positions they have in the whole sequence;
\* every step after the first is fed one token, lengthens every block's
\* cache by one, and uses a position greater than any before.
C8_Step ==
    /\ (pc = "idle" /\ pc' = "generate") =>
        /\ Len(GenCaches') = n_layer
        /\ \A l \in 1..n_layer : GenCaches'[l] = <<>>
    /\ (pc = "generate" /\ pc' = "generate" /\ it' = it + 1) =>
        /\ fwd'.pos = [i \in 1..Len(curr_idx) |->
                          Len(idx) - Len(curr_idx) + i - 1]
        /\ it >= 1 =>
            /\ Len(curr_idx) = 1
            /\ fwd'.pos[1] > Last(fwd.pos)
            /\ \A l \in 1..n_layer :
                /\ Len(GenCaches'[l][1].k) = Len(GenCaches[l][1].k) + 1
                /\ Len(GenCaches'[l][1].v) = Len(GenCaches[l][1].v) + 1

\* C8: every step of every behaviour satisfies C8_Step: caches start absent,
\* grow by one per later step, and positions follow the whole sequence.
C8_PositionsAndCacheGrowth == [][C8_Step]_vars

\* the third step of a call: fed one token, at position two or later
C8_Witness ==
    /\ pc = "generate"
    /\ it >= 3
    /\ Len(fwd.pos) = 1
    /\ fwd.pos[1] >= 2
    /\ \A l \in 1..n_layer : Len(GenCaches[l][1].k) >= 3

\* C9: every forward pass generate issues runs without dropout.
C9_GenerateWithoutDropout ==
    fwd.caller = "generate" => ~fwd.dropout

\* C10: a forward call whose history plus new positions exceed block_size, or
\* whose scores do not have the extents of the mask slice, ends in an error
\* and returns neither logits nor caches.
C10_ShapeMismatchFatal ==
    (res.done /\ call.op = "forward") =>
        LET bkv == call.blocks_kvcache
            hist == IF bkv.none \/ bkv.list[1] = <<>> THEN 0
                    ELSE Len(bkv.list[1][1].k)
            keys == IF call.use_cache THEN hist + call.T ELSE call.T
            overflow == hist + call.T > block_size
            misfit == \/ call.T > block_size
                      \/ keys > block_size
                      \/ (~bkv.none /\ keys # call.T /\ call.T # 1)
        IN  (overflow \/ misfit) =>
                /\ res.err # ""
                /\ res.out.logits = <<>>
                /\ res.out.kvcaches = <<>>
                /\ res.out.arity = 0

\* a call within block_size whose cached keys do not fit the mask slice
C10_Witness ==
    /\ res.done
    /\ call.op = "forward"
    /\ call.use_cache
    /\ call.T = 2
    /\ ~call.blocks_kvcache.none
    /\ call.blocks_kvcache.list[1] # <<>>
    /\ Len(call.blocks_kvcache.list[1][1].k) = 1
    /\ res.err = "RuntimeError"

====
